---- MODULE Spec2Model ----
(***************************************************************************)
(* Content-addressed deployment storage of scripts/r2.py and               *)
(* scripts/cleanup_r2.py: upload runs (scan, dedup by existence check,     *)
(* concurrent blob upload, manifest publish) and cleanup runs (list,       *)
(* reference collection, orphan sweep) against one shared bucket.          *)
(***************************************************************************)
EXTENDS Integers, Sequences, FiniteSets, TLC

(***************************************************************************)
(* Bounds of the model.                                                    *)
(***************************************************************************)
MaxPr == 2          \* pull request ids are 1..MaxPr
MaxOpen == 1        \* length of the --open-prs list
MaxRuns == 3        \* runs started in one behaviour
MaxActive == 2      \* runs in progress at the same time
MaxOverlap == 2     \* only the first MaxOverlap runs may overlap another run
MaxWorkers == 2     \* values of --workers are 1..MaxWorkers

(***************************************************************************)
(* Files.  A path is its stem and its suffix (pathlib's Path.suffix, ""    *)
(* when the name has none); a file's content is a byte string.             *)
(***************************************************************************)
EmptyMap == [x \in {} |-> 0]

FileA == [stem |-> "a", suffix |-> ".js"]

FileB == [stem |-> "b", suffix |-> ".js"]

FileC == [stem |-> "c", suffix |-> ""]

\* The directory trees an upload run may be pointed at, path -> content: the
\* empty tree, one file in either content, two files of the same content with
\* the same and with different suffixes, two files of different content.
Trees ==
    { EmptyMap,
      [p \in {FileA} |-> <<0>>],
      [p \in {FileA} |-> <<1, 1>>],
      [p \in {FileA, FileB} |-> <<0>>],
      [p \in {FileA, FileC} |-> <<0>>],
      [p \in {FileA, FileB} |-> IF p = FileA THEN <<0>> ELSE <<1, 1>>] }

PrIds == 1..MaxPr

\* f"pr-{pr}" and the literal "main".
PrName(pr) == <<"pr-", pr>>

MainName == <<"main">>

ManifestNames == {MainName} \cup { PrName(pr) : pr \in PrIds }

\* hashlib.sha256(bytes).hexdigest()[:16]: the digest prefix, one per content
\* (no two contents of the model collide on it).
hash_file(bytes) == [sha256_16 |-> bytes]

\* path.suffix or ".bin"
get_extension(path) == IF path.suffix = "" THEN ".bin" ELSE path.suffix

\* f"blobs/{content_hash}{extension}"
BlobKey(content_hash, extension) == [hash |-> content_hash, ext |-> extension]

\* "/" + str(file_path.relative_to(dist_dir))
RelativePath(path) == <<"/", path.stem, path.suffix>>

\* Faulty variant of ManifestEntry: the blob key is derived from the file's name.
ManifestEntryKeyedByName(path, bytes) ==
    [ hash |-> hash_file(bytes),
      blob |-> BlobKey(path.stem, get_extension(path)),
      size |-> Len(bytes) ]

\* The manifest entry the scan builds for one file.
ManifestEntry(path, bytes) ==
    [ hash |-> hash_file(bytes),
      blob |-> BlobKey(hash_file(bytes), get_extension(path)),
      size |-> Len(bytes) ]

\* The blob keys a manifest body references.
BlobsIn(body) == { body[rp].blob : rp \in DOMAIN body }

\* m with m[k] = v added or overwritten.
\* Faulty variant of MapPut: a value already stored under the key is updated
\* entry by entry instead of being replaced.
MapPutMerging(m, k, v) ==
    [x \in DOMAIN m \cup {k} |->
        IF x # k THEN m[x]
        ELSE IF k \in DOMAIN m
             THEN [y \in DOMAIN m[k] \cup DOMAIN v |->
                     IF y \in DOMAIN v THEN v[y] ELSE m[k][y]]
             ELSE v]

MapPut(m, k, v) == [x \in DOMAIN m \cup {k} |-> IF x = k THEN v ELSE m[x]]

\* m without key k.
MapDel(m, k) == [x \in DOMAIN m \ {k} |-> m[x]]

Uploaders == {"u1", "u2"}

VARIABLES
    blobs,      \* keys of the objects under the blobs/ prefix of the bucket
    manifests,  \* objects under manifests/: manifest name -> parsed JSON body
    up,         \* the upload runs: locals of cmd_upload per uploader
    gc,         \* the cleanup run: locals of cmd_cleanup / cleanup_r2
    runs,       \* number of runs started
    intact      \* history: the names published with no cleanup run meanwhile
                \* and no cleanup delete since

vars == <<blobs, manifests, up, gc, runs, intact>>

\* History: the bucket as a run found it.
Bucket == [blobs |-> blobs, manifests |-> manifests]

EmptyBucket == [blobs |-> {}, manifests |-> EmptyMap]

\* An uploader with no run in progress.
IdleUp ==
    [ pc |-> "idle",
      manifest_name |-> MainName,
      dist |-> EmptyMap,
      dry_run |-> FALSE,
      max_workers |-> 1,
      todo |-> {},
      manifest |-> EmptyMap,
      blobs_to_upload |-> <<>>,
      existing_blobs |-> <<>>,
      task |-> <<>>,
      exit |-> 0,
      raised |-> FALSE,
      before |-> EmptyBucket,   \* history: the bucket when the run started
      published |-> FALSE,      \* history: the run has put its manifest
      rerun |-> FALSE,          \* history: the run repeats a published upload
      no_cleanup |-> TRUE,      \* history: no cleanup run overlapped this run
      alone |-> TRUE ]          \* history: no run at all overlapped this run

\* A cleaner with no run in progress.
IdleGc ==
    [ pc |-> "idle",
      closed_pr |-> 1,
      open_prs |-> <<>>,
      dry_run |-> FALSE,
      max_workers |-> 1,
      all_blobs |-> {},
      referenced_blobs |-> {},
      next |-> 1,               \* position of the loop over active_manifests
      orphaned_blobs |-> {},
      deleted_manifest |-> FALSE,
      task |-> EmptyMap,        \* orphan key -> state of its delete_object call
      exit |-> 0,
      raised |-> FALSE,
      before |-> EmptyBucket,   \* history: the bucket when the run started
      loaded |-> {},            \* history: the manifest bodies get_manifest returned
      manifest_call |-> "none", \* history: outcome of the closed manifest's delete
      late |-> {},              \* history: the keys an upload wrote between the
                                \* listing and the end of the loop over the manifests
      alone |-> TRUE ]          \* history: no upload run overlapped this run

Init ==
    /\ blobs = {}
    /\ manifests = EmptyMap
    /\ up = [u \in Uploaders |-> IdleUp]
    /\ gc = IdleGc
    /\ runs = 0
    /\ intact = {}

InProgress(r) == r.pc \notin {"idle", "done"}

\* Number of runs in progress.
Active ==
    Cardinality({ u \in Uploaders : InProgress(up[u]) })
      + (IF InProgress(gc) THEN 1 ELSE 0)

\* A run that has ended is taken off the stage before anything else happens
\* (its return touches nothing shared): the other runs wait for it.
UpAt(u, pcs) ==
    /\ up[u].pc \in pcs
    /\ gc.pc # "done"
    /\ \A v \in Uploaders : up[v].pc # "done"

GcAt(pcs) ==
    /\ gc.pc \in pcs
    /\ \A u \in Uploaders : up[u].pc # "done"

\* History: another run starts while run r is in progress.
Overlapped(r) == IF InProgress(r) THEN [r EXCEPT !.alone = FALSE] ELSE r

\* The bound on the runs of one behaviour: a new run may start.
MayStart ==
    /\ runs < MaxRuns
    /\ Active < MaxActive
    /\ Active = 0 \/ runs < MaxOverlap

(***************************************************************************)
(* cmd_upload                                                              *)
(***************************************************************************)

\* The manifest a complete scan of a tree builds.
BuildManifest(tree) ==
    [rp \in { RelativePath(p) : p \in DOMAIN tree } |->
        LET p == CHOOSE q \in DOMAIN tree : RelativePath(q) = rp
        IN  ManifestEntry(p, tree[p])]

\* json.dumps(manifest, sort_keys=True) as read back by json.loads: the same
\* path -> entry mapping.
ManifestJson(manifest) == [rp \in DOMAIN manifest |-> manifest[rp]]

\* History: an upload run published this tree under this name, its manifest
\* is still the one stored and no cleanup run has deleted anything since.
IsRerun(name, tree) ==
    /\ name \in intact
    /\ name \in DOMAIN manifests
    /\ manifests[name] = ManifestJson(BuildManifest(tree))

\* Faulty variant of UploadBegin: the scan starts from the stored manifest.
UploadBeginFromPrior(u, name, tree) ==
    up' = [v \in Uploaders |->
             IF v = u
             THEN [IdleUp EXCEPT !.pc = "scan",
                                 !.manifest_name = name,
                                 !.dist = tree,
                                 !.todo = DOMAIN tree,
                                 !.manifest = IF name \in DOMAIN manifests
                                              THEN manifests[name] ELSE EmptyMap,
                                 !.before = Bucket,
                                 !.rerun = IsRerun(name, tree),
                                 !.no_cleanup = ~InProgress(gc),
                                 !.alone = (Active = 0)]
             ELSE Overlapped(up[v])]

\* A run is started on a directory: locals initialised, files enumerated.
UploadBegin(u, name, tree) ==
    up' = [v \in Uploaders |->
             IF v = u
             THEN [IdleUp EXCEPT !.pc = "scan",
                                 !.manifest_name = name,
                                 !.dist = tree,
                                 !.todo = DOMAIN tree,
                                 !.before = Bucket,
                                 !.rerun = IsRerun(name, tree),
                                 !.no_cleanup = ~InProgress(gc),
                                 !.alone = (Active = 0)]
             ELSE Overlapped(up[v])]

\* --dist is not a directory: return 1 before anything else.
UploadNoDir(u, name) ==
    up' = [up EXCEPT ![u] =
             [IdleUp EXCEPT !.pc = "done",
                            !.manifest_name = name,
                            !.before = Bucket,
                            !.exit = 1]]

\* The uploaders are interchangeable: the second one stands for a run that
\* starts while the first one's is in progress.
UploadStart(u) ==
    /\ UpAt(u, {"idle"})
    /\ u = "u1" \/ InProgress(up["u1"])
    /\ MayStart
    /\ runs' = runs + 1
    /\ \E name \in ManifestNames :
         \/ /\ \E tree \in Trees : UploadBegin(u, name, tree)
            /\ gc' = IF InProgress(gc) THEN [gc EXCEPT !.alone = FALSE] ELSE gc
         \/ /\ UploadNoDir(u, name)
            /\ gc' = gc
    /\ UNCHANGED <<blobs, manifests, intact>>

\* Faulty variant of ScanRecord: the answer of the existence check is not used.
ScanRecordAlwaysUploading(r, path, exists) ==
    LET entry == ManifestEntry(path, r.dist[path])
    IN  [r EXCEPT !.todo = r.todo \ {path},
                  !.manifest = MapPut(r.manifest, RelativePath(path), entry),
                  !.blobs_to_upload =
                      Append(r.blobs_to_upload,
                             [file_path |-> path, blob_key |-> entry.blob])]

\* Faulty variant of ScanRecord: a file whose blob is in the bucket gets no
\* manifest entry.
ScanRecordSkippingReused(r, path, exists) ==
    LET entry == ManifestEntry(path, r.dist[path])
    IN  [r EXCEPT !.todo = r.todo \ {path},
                  !.manifest =
                      IF exists THEN r.manifest
                                ELSE MapPut(r.manifest, RelativePath(path), entry),
                  !.existing_blobs =
                      IF exists THEN Append(r.existing_blobs, entry.blob)
                                ELSE r.existing_blobs,
                  !.blobs_to_upload =
                      IF exists THEN r.blobs_to_upload
                                ELSE Append(r.blobs_to_upload,
                                            [file_path |-> path, blob_key |-> entry.blob])]

\* Faulty variant of ScanRecord: every key is taken to be in the bucket.
ScanRecordNeverUploading(r, path, exists) ==
    LET entry == ManifestEntry(path, r.dist[path])
    IN  [r EXCEPT !.todo = r.todo \ {path},
                  !.manifest = MapPut(r.manifest, RelativePath(path), entry),
                  !.existing_blobs = Append(r.existing_blobs, entry.blob)]

\* blob_exists: head_object answered (hit or 404).
ScanRecord(r, path, exists) ==
    LET entry == ManifestEntry(path, r.dist[path])
    IN  [r EXCEPT !.todo = r.todo \ {path},
                  !.manifest = MapPut(r.manifest, RelativePath(path), entry),
                  !.existing_blobs =
                      IF exists THEN Append(r.existing_blobs, entry.blob)
                                ELSE r.existing_blobs,
                  !.blobs_to_upload =
                      IF exists THEN r.blobs_to_upload
                                ELSE Append(r.blobs_to_upload,
                                            [file_path |-> path, blob_key |-> entry.blob])]

\* One iteration of the scan loop: hash, manifest entry, existence check.
UploadScan(u) ==
    /\ UpAt(u, {"scan"})
    /\ \E path \in up[u].todo :
         LET key == ManifestEntry(path, up[u].dist[path]).blob
         IN  up' = [up EXCEPT ![u] = ScanRecord(up[u], path, key \in blobs)]
    /\ UNCHANGED <<blobs, manifests, gc, runs, intact>>

\* Faulty variant of ScanFailed: the error is swallowed and the loop left,
\* the run going on with the files scanned so far.
ScanFailedGoingOn(r) == [r EXCEPT !.todo = {}]

\* blob_exists re-raises: the exception leaves the loop and the run.
ScanFailed(r) == [r EXCEPT !.pc = "done", !.exit = 1, !.raised = TRUE]

\* head_object failed with an error other than 404: blob_exists re-raises.
UploadScanError(u) ==
    /\ UpAt(u, {"scan"})
    /\ up[u].todo # {}
    /\ up' = [up EXCEPT ![u] = ScanFailed(up[u])]
    /\ UNCHANGED <<blobs, manifests, gc, runs, intact>>

\* Faulty variant of UploadAfterScan: the dry-run return is missing.
UploadAfterScanIgnoringDryRun(r, dry, workers) ==
    IF r.blobs_to_upload = <<>>
    THEN [r EXCEPT !.pc = "publish", !.dry_run = dry]
    ELSE [r EXCEPT !.pc = "pool",
                   !.dry_run = dry,
                   !.max_workers = workers,
                   !.task = [i \in 1..Len(r.blobs_to_upload) |-> "queued"]]

\* After the loop: the dry-run return, else all uploads are submitted to an
\* executor of max_workers threads (or the pool is skipped when nothing is to
\* upload).  --dry-run and --workers have no effect before this point: the
\* model draws them here.
UploadAfterScan(r, dry, workers) ==
    IF dry
    THEN [r EXCEPT !.pc = "done", !.dry_run = TRUE, !.exit = 0]
    ELSE IF r.blobs_to_upload = <<>>
         THEN [r EXCEPT !.pc = "publish"]
         ELSE [r EXCEPT !.pc = "pool",
                        !.max_workers = workers,
                        !.task = [i \in 1..Len(r.blobs_to_upload) |-> "queued"]]

UploadEndScan(u) ==
    /\ UpAt(u, {"scan"})
    /\ up[u].todo = {}
    /\ \E dry \in BOOLEAN, workers \in 1..MaxWorkers :
         up' = [up EXCEPT ![u] = UploadAfterScan(up[u], dry, workers)]
    /\ UNCHANGED <<blobs, manifests, gc, runs, intact>>

Running(task) == { i \in DOMAIN task : task[i] = "running" }

\* Faulty variant of FreeWorker: the pool starts a thread per task.
AlwaysFreeWorker(running, max_workers) == TRUE

\* ThreadPoolExecutor(max_workers=max_workers): a queued call is taken only
\* by one of max_workers threads, each running one call at a time.
FreeWorker(running, max_workers) == Cardinality(running) < max_workers

Finished(task) == { i \in DOMAIN task : task[i] \in {"ok", "err"} }

\* The pool's queue is FIFO: the next task to start is the first queued one.
NextQueued(task) ==
    { i \in DOMAIN task :
        /\ task[i] = "queued"
        /\ \A j \in DOMAIN task : task[j] = "queued" => i <= j }

\* A free worker thread takes the next queued upload_blob call.  The pool
\* keeps doing so while the orchestrator is leaving the with-block.
UploadTaskStart(u) ==
    /\ UpAt(u, {"pool", "drain"})
    /\ FreeWorker(Running(up[u].task), up[u].max_workers)
    /\ \E i \in NextQueued(up[u].task) :
         up' = [up EXCEPT ![u].task[i] = "running"]
    /\ UNCHANGED <<blobs, manifests, gc, runs, intact>>

\* upload_blob returns: the object is in the bucket.
UploadTaskOk(u) ==
    /\ UpAt(u, {"pool", "drain"})
    /\ \E i \in Running(up[u].task) :
         /\ blobs' = blobs \cup {up[u].blobs_to_upload[i].blob_key}
         /\ up' = [up EXCEPT ![u].task[i] = "ok"]
         /\ gc' = IF gc.pc = "load"
                  THEN [gc EXCEPT !.late = @ \cup {up[u].blobs_to_upload[i].blob_key}]
                  ELSE gc
    /\ UNCHANGED <<manifests, runs, intact>>

\* upload_blob raises: nothing is written.
UploadTaskFail(u) ==
    /\ UpAt(u, {"pool", "drain"})
    /\ \E i \in Running(up[u].task) :
         up' = [up EXCEPT ![u].task[i] = "err"]
    /\ UNCHANGED <<blobs, manifests, gc, runs, intact>>

\* as_completed yields a future whose result() raises: the exception is
\* re-raised and the with-block is left, which waits for the pool.
UploadObserveFail(u) ==
    /\ UpAt(u, {"pool"})
    /\ \E i \in DOMAIN up[u].task : up[u].task[i] = "err"
    /\ up' = [up EXCEPT ![u].pc = "drain"]
    /\ UNCHANGED <<blobs, manifests, gc, runs, intact>>

\* Executor shutdown(wait=True) returns once every submitted task has run;
\* the exception then leaves cmd_upload.
UploadDrained(u) ==
    /\ UpAt(u, {"drain"})
    /\ Finished(up[u].task) = DOMAIN up[u].task
    /\ up' = [up EXCEPT ![u].pc = "done", ![u].exit = 1, ![u].raised = TRUE]
    /\ UNCHANGED <<blobs, manifests, gc, runs, intact>>

\* Faulty variant of AllSucceeded: a raising result() is logged and the loop goes on.
AllFinishedIgnoringErrors(task) == Finished(task) = DOMAIN task

\* Faulty variant of AllSucceeded: the loop does not wait for the futures still
\* queued or running.
NoFailureSeen(task) == \A i \in DOMAIN task : task[i] # "err"

\* The as_completed loop ends without raising: every future was yielded and
\* every result() returned.
AllSucceeded(task) == \A i \in DOMAIN task : task[i] = "ok"

\* The with-block ends normally.
UploadPoolDone(u) ==
    /\ UpAt(u, {"pool"})
    /\ AllSucceeded(up[u].task)
    /\ up' = [up EXCEPT ![u].pc = "publish"]
    /\ UNCHANGED <<blobs, manifests, gc, runs, intact>>

\* The exit code after the summary.
UploadExit(r) == IF Cardinality(DOMAIN r.manifest) = 0 THEN 1 ELSE 0

\* put_object of the manifest, then the summary and the return.
UploadPublish(u) ==
    /\ UpAt(u, {"publish"})
    /\ manifests' = MapPut(manifests, up[u].manifest_name, ManifestJson(up[u].manifest))
    /\ up' = [up EXCEPT ![u].pc = "done", ![u].published = TRUE,
                         ![u].exit = UploadExit(up[u])]
    /\ intact' = IF up[u].no_cleanup
                 THEN intact \cup {up[u].manifest_name}
                 ELSE intact \ {up[u].manifest_name}
    /\ UNCHANGED <<blobs, gc, runs>>

\* put_object raises: the exception leaves cmd_upload.
UploadPublishFail(u) ==
    /\ UpAt(u, {"publish"})
    /\ up' = [up EXCEPT ![u].pc = "done", ![u].exit = 1, ![u].raised = TRUE]
    /\ UNCHANGED <<blobs, manifests, gc, runs, intact>>

\* The process ends; the uploader can be started again.
UploadReturn(u) ==
    /\ up[u].pc = "done"
    /\ up' = [up EXCEPT ![u] = IdleUp]
    /\ UNCHANGED <<blobs, manifests, gc, runs, intact>>

Upload(u) ==
    \/ UploadStart(u)
    \/ UploadScan(u)
    \/ UploadScanError(u)
    \/ UploadEndScan(u)
    \/ UploadTaskStart(u)
    \/ UploadTaskOk(u)
    \/ UploadTaskFail(u)
    \/ UploadObserveFail(u)
    \/ UploadDrained(u)
    \/ UploadPoolDone(u)
    \/ UploadPublish(u)
    \/ UploadPublishFail(u)

(***************************************************************************)
(* cmd_cleanup (r2.py) and cleanup_r2 (cleanup_r2.py)                      *)
(***************************************************************************)

\* The values of --open-prs after parsing: lists of PR ids.
OpenPrLists == UNION { [1..n -> PrIds] : n \in 0..MaxOpen }

\* Faulty variant of ActiveManifests: "main" is left out.
ActiveManifestsWithoutMain(open_prs) ==
    [i \in 1..Len(open_prs) |-> PrName(open_prs[i])]

\* ["main"] + [f"pr-{pr}" for pr in open_prs]
ActiveManifests(open_prs) ==
    <<MainName>> \o [i \in 1..Len(open_prs) |-> PrName(open_prs[i])]

\* Faulty variant of get_manifest: only the main manifest is read.
get_manifestOfMainOnly(name) ==
    IF name = MainName /\ name \in DOMAIN manifests
    THEN [none |-> FALSE, body |-> manifests[name]]
    ELSE [none |-> TRUE, body |-> EmptyMap]

\* get_manifest: the parsed body, or None when the object is absent.
get_manifest(name) ==
    IF name \in DOMAIN manifests
    THEN [none |-> FALSE, body |-> manifests[name]]
    ELSE [none |-> TRUE, body |-> EmptyMap]

\* Python truth of get_manifest's result: None and {} are both false.
Truthy(manifest) == ~manifest.none /\ DOMAIN manifest.body # {}

CleanupStart ==
    /\ GcAt({"idle"})
    /\ MayStart
    /\ runs' = runs + 1
    /\ \E closed \in PrIds, open \in OpenPrLists :
         gc' = [IdleGc EXCEPT !.pc = "list",
                              !.closed_pr = closed,
                              !.open_prs = open,
                              !.before = Bucket,
                              !.alone = \A u \in Uploaders : ~InProgress(up[u])]
    /\ up' = [u \in Uploaders |->
                IF InProgress(up[u])
                THEN [up[u] EXCEPT !.no_cleanup = FALSE, !.alone = FALSE]
                ELSE up[u]]
    /\ UNCHANGED <<blobs, manifests, intact>>

\* list_objects_with_prefix(s3, bucket, "blobs/")
CleanupList ==
    /\ GcAt({"list"})
    /\ gc' = [gc EXCEPT !.pc = "load", !.all_blobs = blobs]
    /\ UNCHANGED <<blobs, manifests, up, runs, intact>>

\* The listing raises: the exception leaves the run.
CleanupListFail ==
    /\ GcAt({"list"})
    /\ gc' = [gc EXCEPT !.pc = "done", !.exit = 1, !.raised = TRUE]
    /\ UNCHANGED <<blobs, manifests, up, runs, intact>>

\* Faulty variant of LoadRecord: the references are assigned, not accumulated.
LoadRecordOverwriting(r, manifest) ==
    [r EXCEPT !.next = r.next + 1,
              !.referenced_blobs =
                  IF Truthy(manifest) THEN BlobsIn(manifest.body) ELSE {},
              !.loaded =
                  IF manifest.none THEN r.loaded ELSE r.loaded \cup {manifest.body}]

\* One iteration of the loop over active_manifests.
LoadRecord(r, manifest) ==
    [r EXCEPT !.next = r.next + 1,
              !.referenced_blobs =
                  IF Truthy(manifest)
                  THEN r.referenced_blobs \cup BlobsIn(manifest.body)
                  ELSE r.referenced_blobs,
              !.loaded =
                  IF manifest.none THEN r.loaded ELSE r.loaded \cup {manifest.body}]

CleanupLoad ==
    /\ GcAt({"load"})
    /\ gc.next <= Len(ActiveManifests(gc.open_prs))
    /\ gc' = LoadRecord(gc, get_manifest(ActiveManifests(gc.open_prs)[gc.next]))
    /\ UNCHANGED <<blobs, manifests, up, runs, intact>>

\* Faulty variant of LoadFailed: the failure is taken for a missing manifest.
LoadFailedAsMissing(r) == LoadRecord(r, [none |-> TRUE, body |-> EmptyMap])

\* get_manifest re-raises: the exception leaves the loop and the run.
LoadFailed(r) == [r EXCEPT !.pc = "done", !.exit = 1, !.raised = TRUE]

\* get_object fails with an error other than NoSuchKey: get_manifest re-raises.
CleanupLoadFail ==
    /\ GcAt({"load"})
    /\ gc.next <= Len(ActiveManifests(gc.open_prs))
    /\ gc' = LoadFailed(gc)
    /\ UNCHANGED <<blobs, manifests, up, runs, intact>>

\* Faulty variant of Orphans: the references are not subtracted.
OrphansIgnoringReferences(all_blobs, referenced_blobs) == all_blobs

\* all_blobs - referenced_blobs
Orphans(all_blobs, referenced_blobs) == all_blobs \ referenced_blobs

\* Faulty variant of CleanupAfterLoad: the orphan set is left to the sweep,
\* which takes every listed key.
CleanupAfterLoadDeferringOrphans(r, dry) ==
    IF dry
    THEN [r EXCEPT !.pc = "done", !.dry_run = TRUE, !.exit = 0,
                   !.orphaned_blobs = r.all_blobs \ r.referenced_blobs]
    ELSE [r EXCEPT !.pc = "delete_manifest"]

\* Faulty variant of CleanupAfterLoad: the dry-run return is missing.
CleanupAfterLoadIgnoringDryRun(r, dry) ==
    [r EXCEPT !.pc = "delete_manifest", !.dry_run = dry,
              !.orphaned_blobs = r.all_blobs \ r.referenced_blobs]

\* After the loop: the orphan set, then the dry-run return.  --dry-run has no
\* effect before this point: the model draws it here.
CleanupAfterLoad(r, dry) ==
    LET orphaned == Orphans(r.all_blobs, r.referenced_blobs)
    IN  IF dry
        THEN [r EXCEPT !.pc = "done", !.dry_run = TRUE,
                       !.orphaned_blobs = orphaned, !.exit = 0]
        ELSE [r EXCEPT !.pc = "delete_manifest", !.orphaned_blobs = orphaned]

CleanupFindOrphans ==
    /\ GcAt({"load"})
    /\ gc.next > Len(ActiveManifests(gc.open_prs))
    /\ \E dry \in BOOLEAN : gc' = CleanupAfterLoad(gc, dry)
    /\ UNCHANGED <<blobs, manifests, up, runs, intact>>

\* Faulty variant of SubmitDeletes: the blobs are listed again for the sweep.
SubmitDeletesRelisting(r, deleted, workers) ==
    [r EXCEPT !.pc = "pool",
              !.deleted_manifest = deleted,
              !.max_workers = workers,
              !.orphaned_blobs = blobs \ r.referenced_blobs,
              !.task = [k \in blobs \ r.referenced_blobs |-> "queued"]]

\* Faulty variant of SubmitDeletes: a delete is submitted for every listed key.
SubmitDeletesAllListed(r, deleted, workers) ==
    [r EXCEPT !.pc = "pool",
              !.deleted_manifest = deleted,
              !.max_workers = workers,
              !.task = [k \in r.all_blobs |-> "queued"]]

\* Faulty variant of SubmitDeletes: one orphan is left out of the sweep.
SubmitDeletesButOne(r, deleted, workers) ==
    LET kept == IF r.orphaned_blobs = {} THEN {}
                ELSE {CHOOSE k \in r.orphaned_blobs : TRUE}
    IN  [r EXCEPT !.pc = "pool",
                  !.deleted_manifest = deleted,
                  !.max_workers = workers,
                  !.task = [k \in r.orphaned_blobs \ kept |-> "queued"]]

\* The delete tasks submitted to an executor of max_workers threads: one per
\* orphan key.  --workers has no effect before this point and is drawn here.
SubmitDeletes(r, deleted, workers) ==
    [r EXCEPT !.pc = "pool",
              !.deleted_manifest = deleted,
              !.max_workers = IF r.orphaned_blobs = {} THEN r.max_workers ELSE workers,
              !.task = [k \in r.orphaned_blobs |-> "queued"]]

\* Faulty variant of ClosedManifestKey: the key of the main manifest.
MainManifestKey(closed_pr) == MainName

\* closed_manifest_key = f"manifests/pr-{closed_pr}.json"
ClosedManifestKey(closed_pr) == PrName(closed_pr)

\* delete_object of the closed manifest returns (also when it was absent).
CleanupDeleteManifest ==
    /\ GcAt({"delete_manifest"})
    /\ manifests' = MapDel(manifests, ClosedManifestKey(gc.closed_pr))
    /\ \E workers \in 1..MaxWorkers :
         gc' = [SubmitDeletes(gc, TRUE, workers) EXCEPT !.manifest_call = "returned"]
    /\ intact' = {}
    /\ UNCHANGED <<blobs, up, runs>>

\* delete_object of the closed manifest raises ClientError: warned, absorbed.
CleanupDeleteManifestClientError ==
    /\ GcAt({"delete_manifest"})
    /\ \E workers \in 1..MaxWorkers :
         gc' = [SubmitDeletes(gc, FALSE, workers) EXCEPT !.manifest_call = "raised"]
    /\ UNCHANGED <<blobs, manifests, up, runs, intact>>

\* delete_object of the closed manifest raises an exception that is not a
\* ClientError (a connection failure): it leaves the run.
CleanupDeleteManifestOtherError ==
    /\ GcAt({"delete_manifest"})
    /\ gc' = [gc EXCEPT !.pc = "done", !.exit = 1, !.raised = TRUE,
                        !.manifest_call = "raised"]
    /\ UNCHANGED <<blobs, manifests, up, runs, intact>>

Deleting(task) == { k \in DOMAIN task : task[k] = "running" }

\* A free worker thread takes a queued delete_object call (the set's
\* iteration order, hence the queue's, is arbitrary).
CleanupTaskStart ==
    /\ GcAt({"pool"})
    /\ FreeWorker(Deleting(gc.task), gc.max_workers)
    /\ \E k \in DOMAIN gc.task :
         /\ gc.task[k] = "queued"
         /\ gc' = [gc EXCEPT !.task[k] = "running"]
    /\ UNCHANGED <<blobs, manifests, up, runs, intact>>

\* delete_object returns: the key is gone (or was already).
CleanupTaskOk ==
    /\ GcAt({"pool"})
    /\ \E k \in Deleting(gc.task) :
         /\ blobs' = blobs \ {k}
         /\ gc' = [gc EXCEPT !.task[k] = "ok"]
    /\ intact' = {}
    /\ UNCHANGED <<manifests, up, runs>>

\* delete_object raises: logged, the loop goes on.
CleanupTaskFail ==
    /\ GcAt({"pool"})
    /\ \E k \in Deleting(gc.task) :
         gc' = [gc EXCEPT !.task[k] = "err"]
    /\ UNCHANGED <<blobs, manifests, up, runs, intact>>

\* Faulty variant of AllYielded: the loop is left at the first failed delete.
YieldedUntilFailure(task) ==
    \/ \A k \in DOMAIN task : task[k] \in {"ok", "err"}
    \/ \E k \in DOMAIN task : task[k] = "err"

\* The as_completed loop of the cleanup ends: every future was yielded, the
\* raising ones logged.
AllYielded(task) == \A k \in DOMAIN task : task[k] \in {"ok", "err"}

\* Every future was yielded: summary and return 0.
CleanupPoolDone ==
    /\ GcAt({"pool"})
    /\ AllYielded(gc.task)
    /\ gc' = [gc EXCEPT !.pc = "done", !.exit = 0]
    /\ UNCHANGED <<blobs, manifests, up, runs, intact>>

\* Faulty variant of DeletedCount: every yielded future is counted.
DeletedCountAllYielded(r) ==
    Cardinality({ k \in DOMAIN r.task : r.task[k] \in {"ok", "err"} })

\* deleted_count at the end of the as_completed loop.
DeletedCount(r) == Cardinality({ k \in DOMAIN r.task : r.task[k] = "ok" })

\* The dict cleanup_r2 returns.
CleanupStats(r) ==
    [ orphaned_blobs |-> Cardinality(r.orphaned_blobs),
      deleted_blobs |-> DeletedCount(r),
      deleted_manifest |-> r.deleted_manifest ]

\* The process ends; the cleaner can be started again.
CleanupReturn ==
    /\ gc.pc = "done"
    /\ gc' = IdleGc
    /\ UNCHANGED <<blobs, manifests, up, runs, intact>>

Cleanup ==
    \/ CleanupStart
    \/ CleanupList
    \/ CleanupListFail
    \/ CleanupLoad
    \/ CleanupLoadFail
    \/ CleanupFindOrphans
    \/ CleanupDeleteManifest
    \/ CleanupDeleteManifestClientError
    \/ CleanupDeleteManifestOtherError
    \/ CleanupTaskStart
    \/ CleanupTaskOk
    \/ CleanupTaskFail
    \/ CleanupPoolDone

(***************************************************************************)
(* cleanup_r2 (cleanup_r2.py), as a function of the bucket it is started   *)
(* on, its arguments and the outcomes of its storage calls:                *)
(*   calls.mark     "ok", or "raise" when the listing or a get_manifest    *)
(*                  raises;                                                *)
(*   calls.manifest "returned", "client_error" or "other_error", outcome   *)
(*                  of the closed manifest's delete_object;                *)
(*   calls.failed   the blob keys whose delete_object raises.              *)
(***************************************************************************)

\* get_manifest of cleanup_r2.py on a given bucket.
cleanup_r2_get_manifest(store, name) ==
    IF name \in DOMAIN store.manifests
    THEN [none |-> FALSE, body |-> store.manifests[name]]
    ELSE [none |-> TRUE, body |-> EmptyMap]

\* Faulty variant of cleanup_r2_referenced: "main" is not loaded.
cleanup_r2_referencedOpenOnly(store, open_prs) ==
    UNION { BlobsIn(cleanup_r2_get_manifest(store, PrName(open_prs[i])).body) :
              i \in DOMAIN open_prs }

\* referenced_blobs after the loop over ["main"] + [f"pr-{pr}" ...].
cleanup_r2_referenced(store, open_prs) ==
    LET active_manifests ==
            <<MainName>> \o [i \in 1..Len(open_prs) |-> PrName(open_prs[i])]
        manifest(i) == cleanup_r2_get_manifest(store, active_manifests[i])
    IN  UNION { IF ~manifest(i).none /\ DOMAIN manifest(i).body # {}
                THEN BlobsIn(manifest(i).body)
                ELSE {} : i \in DOMAIN active_manifests }

\* What the function leaves: the delete calls it issued, the bucket, and the
\* dict it returns (when it returns).
cleanup_r2(store, closed_pr, open_prs, dry_run, calls) ==
    LET all_blobs == store.blobs
        referenced_blobs == cleanup_r2_referenced(store, open_prs)
        orphaned_blobs == all_blobs \ referenced_blobs
        closed_manifest_key == PrName(closed_pr)
        untouched == [ issued |-> {}, manifest_issued |-> FALSE,
                       store |-> store, returned |-> FALSE,
                       stats |-> [ orphaned_blobs |-> 0, deleted_blobs |-> 0,
                                   deleted_manifest |-> FALSE ] ]
    IN  IF calls.mark = "raise" THEN untouched
        ELSE IF dry_run
        THEN [untouched EXCEPT !.returned = TRUE,
                               !.stats.orphaned_blobs = Cardinality(orphaned_blobs)]
        ELSE IF calls.manifest = "other_error"
        THEN [untouched EXCEPT !.manifest_issued = TRUE]
        ELSE LET deleted_manifest == calls.manifest = "returned"
                 deleted == orphaned_blobs \ calls.failed
             IN  [ issued |-> orphaned_blobs,
                   manifest_issued |-> TRUE,
                   store |-> [ blobs |-> store.blobs \ deleted,
                               manifests |->
                                   IF deleted_manifest
                                   THEN MapDel(store.manifests, closed_manifest_key)
                                   ELSE store.manifests ],
                   returned |-> TRUE,
                   stats |-> [ orphaned_blobs |-> Cardinality(orphaned_blobs),
                               deleted_blobs |-> Cardinality(deleted),
                               deleted_manifest |-> deleted_manifest ] ]

\* One uploader and the cleaner.
Next ==
    \/ UploadReturn("u1")
    \/ CleanupReturn
    \/ Upload("u1")
    \/ Cleanup

Spec == Init /\ [][Next]_vars

\* The bucket as a successful upload of a one-file tree under a PR name
\* leaves an empty bucket.
StoredBuckets ==
    { EmptyBucket,
      [ blobs |-> BlobsIn(BuildManifest(FileA :> <<0>>)),
        manifests |-> PrName(1) :> ManifestJson(BuildManifest(FileA :> <<0>>)) ] }

\* The runs start on a bucket that earlier runs have filled.
InitStored ==
    /\ \E bucket \in StoredBuckets :
         /\ blobs = bucket.blobs
         /\ manifests = bucket.manifests
         /\ intact = DOMAIN bucket.manifests
    /\ up = [u \in Uploaders |-> IdleUp]
    /\ gc = IdleGc
    /\ runs = 0

\* Two uploaders and the cleaner.
NextTwoUploaders ==
    \/ UploadReturn("u1")
    \/ UploadReturn("u2")
    \/ CleanupReturn
    \/ Upload("u1")
    \/ Upload("u2")
    \/ Cleanup

SpecTwoUploaders == InitStored /\ [][NextTwoUploaders]_vars

(***************************************************************************)
(* Properties                                                              *)
(***************************************************************************)

\* The active set of a cleanup run: {"main"} and "pr-<id>" for every open id.
ActiveNames(open_prs) ==
    {MainName} \cup { PrName(open_prs[i]) : i \in DOMAIN open_prs }

\* The blobs referenced by the manifests that ms stores under active names.
ReferencedBy(ms, open_prs) ==
    UNION { BlobsIn(ms[n]) : n \in ActiveNames(open_prs) \cap DOMAIN ms }

\* The keys a cleanup run has issued a delete for, and those it has deleted.
DeleteIssued(r) == { k \in DOMAIN r.task : r.task[k] # "queued" }

Deleted(r) == { k \in DOMAIN r.task : r.task[k] = "ok" }

\* The blobs referenced by the manifest bodies a cleanup run has loaded.
LoadedReferences(r) == UNION { BlobsIn(body) : body \in r.loaded }

\* The cleanup run has computed its orphan set.
OrphansComputed(r) ==
    \/ r.pc \in {"delete_manifest", "pool"}
    \/ r.pc = "done" /\ (r.dry_run \/ ~r.raised)

\* The files an upload run has scanned, and the path a manifest key names.
Scanned(r) == DOMAIN r.dist \ r.todo

PathOf(rp) == [stem |-> rp[2], suffix |-> rp[3]]

HasFailedTask(r) == \E i \in DOMAIN r.task : r.task[i] = "err"

\* C1: a cleanup run with no concurrent writer never issues a delete for a
\* blob key that an entry of a manifest it loaded from its active set
\* references.
C1_NoDeleteOfLoadedReference ==
    gc.alone =>
        \A k \in DeleteIssued(gc) : \A body \in gc.loaded : k \notin BlobsIn(body)

\* C1 witness: an undisturbed cleanup run has ended after deleting an orphan
\* while a manifest it loaded references a listed blob.
C1_Witness ==
    /\ gc.pc = "done"
    /\ gc.alone
    /\ Deleted(gc) # {}
    /\ LoadedReferences(gc) \cap gc.all_blobs # {}

\* C2 (as claimed): whatever the interleaving with an upload run, a cleanup
\* run never deletes a blob that a manifest stored under one of its active
\* names references at that moment.
C2_NoActiveBlobDeletedUnderConcurrency ==
    [][\A k \in blobs \ blobs' : k \notin ReferencedBy(manifests, gc.open_prs)]_vars

\* C3: a run one of whose upload tasks failed never puts its manifest, and
\* (no cleanup run interfering) the stored manifests stay as it found them.
C3_FailedUploadNeverPublishes ==
    \A u \in Uploaders :
        HasFailedTask(up[u]) =>
            /\ ~up[u].published
            /\ up[u].no_cleanup => manifests = up[u].before.manifests

\* C3 witness: a run ended by a failed task although another of its tasks
\* succeeded, a manifest being stored under its name before it.
C3_Witness ==
    \E u \in Uploaders :
        /\ up[u].pc = "done"
        /\ HasFailedTask(up[u])
        /\ \E i \in DOMAIN up[u].task : up[u].task[i] = "ok"
        /\ up[u].manifest_name \in DOMAIN up[u].before.manifests

\* C4: the manifest is put only once every scheduled upload task, one per
\* entry of blobs_to_upload, has completed successfully.
C4_PublishAfterAllUploads ==
    \A u \in Uploaders :
        (up[u].pc = "publish" \/ up[u].published) =>
            /\ Len(up[u].task) = Len(up[u].blobs_to_upload)
            /\ \A i \in DOMAIN up[u].task : up[u].task[i] = "ok"

\* C4 witness: a manifest was put after two upload tasks ran on one worker.
C4_Witness ==
    \E u \in Uploaders :
        /\ up[u].published
        /\ Len(up[u].task) = 2
        /\ up[u].max_workers = 1

\* C5: a dry-run cleanup issues no delete and reports none; run undisturbed,
\* it leaves the blob objects and the manifest objects as it found them.
C5_DryRunCleanupMutatesNothing ==
    (gc.pc = "done" /\ gc.dry_run) =>
        /\ DeleteIssued(gc) = {}
        /\ CleanupStats(gc).deleted_blobs = 0
        /\ ~CleanupStats(gc).deleted_manifest
        /\ gc.alone => Bucket = gc.before

\* C5 witness: an undisturbed dry run has ended that found orphans and the
\* closed manifest in the bucket.
C5_Witness ==
    /\ gc.pc = "done"
    /\ gc.dry_run
    /\ gc.alone
    /\ gc.orphaned_blobs # {}
    /\ PrName(gc.closed_pr) \in DOMAIN manifests

\* C6: the orphan set is exactly the listed keys that no loaded manifest
\* references, hence disjoint from the references; run undisturbed, it is the
\* bucket's blobs minus those its active manifests reference.
C6_OrphansAreListedMinusReferenced ==
    OrphansComputed(gc) =>
        /\ gc.orphaned_blobs = gc.all_blobs \ LoadedReferences(gc)
        /\ gc.orphaned_blobs \cap LoadedReferences(gc) = {}
        /\ gc.alone =>
             gc.orphaned_blobs =
                 gc.before.blobs \ ReferencedBy(gc.before.manifests, gc.open_prs)

\* C6 witness: an undisturbed run with an open PR found orphans among listed
\* blobs of which a loaded manifest references others.
C6_Witness ==
    /\ OrphansComputed(gc)
    /\ gc.alone
    /\ gc.open_prs # <<>>
    /\ gc.orphaned_blobs # {}
    /\ LoadedReferences(gc) \cap gc.all_blobs # {}

\* C7: a cleanup run that follows an upload undisturbed deletes no blob of a
\* manifest stored under one of its active names: it issues no delete for
\* one and they all stay in the bucket.
C7_UploadedBlobsSurviveCleanup ==
    gc.alone =>
        \A n \in ActiveNames(gc.open_prs) \cap DOMAIN gc.before.manifests :
            LET B == BlobsIn(gc.before.manifests[n]) \cap gc.before.blobs
            IN  /\ B \cap DeleteIssued(gc) = {}
                /\ B \subseteq blobs

\* C7 witness: an undisturbed cleanup run has ended after deleting an orphan,
\* the manifest of an open PR and all its blobs being in the bucket before.
C7_Witness ==
    /\ gc.pc = "done"
    /\ gc.alone
    /\ Deleted(gc) # {}
    /\ \E i \in DOMAIN gc.open_prs :
         /\ PrName(gc.open_prs[i]) \in DOMAIN gc.before.manifests
         /\ BlobsIn(gc.before.manifests[PrName(gc.open_prs[i])]) # {}
         /\ BlobsIn(gc.before.manifests[PrName(gc.open_prs[i])]) \subseteq gc.before.blobs

\* C8: an upload run that repeats a published upload, no cleanup run having
\* deleted anything since or running meanwhile, uploads no blob and puts the
\* manifest it found.
C8_RerunUploadsNothing ==
    \A u \in Uploaders :
        (up[u].rerun /\ up[u].no_cleanup) =>
            /\ up[u].blobs_to_upload = <<>>
            /\ up[u].task = <<>>
            /\ blobs = up[u].before.blobs
            /\ up[u].published =>
                 manifests[up[u].manifest_name]
                     = up[u].before.manifests[up[u].manifest_name]

\* C8 witness: the repeat of an upload of two files has put its manifest.
C8_Witness ==
    \E u \in Uploaders :
        /\ up[u].rerun
        /\ up[u].no_cleanup
        /\ up[u].published
        /\ Len(up[u].existing_blobs) = 2

\* C9 (as claimed, for files that resolve to one key): byte-identical files
\* cost one blob PUT, so no run uploads the same key twice.
C9_OnePutPerBlob ==
    \A u \in Uploaders :
        \A i, j \in DOMAIN up[u].task :
            /\ up[u].blobs_to_upload[i].blob_key = up[u].blobs_to_upload[j].blob_key
            /\ up[u].task[i] = "ok"
            /\ up[u].task[j] = "ok"
            => i = j

\* C10 (as claimed): files with identical bytes get the same blob key
\* whatever their path and name, extension included.
C10_SameBytesSameKey ==
    \A u \in Uploaders :
        \A p, q \in Scanned(up[u]) :
            up[u].dist[p] = up[u].dist[q] =>
                up[u].manifest[RelativePath(p)].blob
                    = up[u].manifest[RelativePath(q)].blob

\* C10 (amended): files with identical bytes and the same extension
\* (path.suffix, ".bin" when the name has none) get the same blob key,
\* whatever their path and the run: in one scan, and against every entry of
\* a stored manifest built from a file of these bytes and this extension.
C10_SameBytesSameExtensionSameKey ==
    \A u \in Uploaders :
        \A p \in Scanned(up[u]) :
            LET key == up[u].manifest[RelativePath(p)].blob
            IN  /\ \A q \in Scanned(up[u]) :
                     /\ up[u].dist[p] = up[u].dist[q]
                     /\ get_extension(p) = get_extension(q)
                     => up[u].manifest[RelativePath(q)].blob = key
                /\ \A n \in DOMAIN manifests :
                     \A rp \in DOMAIN manifests[n] :
                         /\ manifests[n][rp].hash = hash_file(up[u].dist[p])
                         /\ get_extension(PathOf(rp)) = get_extension(p)
                         => manifests[n][rp].blob = key

\* C10 witness: a run has scanned a file whose bytes and extension are those
\* of a file of another path in the manifest stored under another name.
C10_Witness ==
    \E u \in Uploaders :
        \E p \in Scanned(up[u]) :
            \E n \in DOMAIN manifests \ {up[u].manifest_name} :
                \E rp \in DOMAIN manifests[n] \ {RelativePath(p)} :
                    /\ manifests[n][rp].hash = hash_file(up[u].dist[p])
                    /\ get_extension(PathOf(rp)) = get_extension(p)

\* The cleanup run went through its delete phase to the final summary.
Swept(r) == r.pc = "done" /\ ~r.dry_run /\ ~r.raised

\* C11: a cleanup that reaches its summary has attempted the delete of every
\* orphan key, whatever the number of deletes that failed.
C11_EveryOrphanDeleteAttempted ==
    Swept(gc) =>
        /\ DOMAIN gc.task = gc.orphaned_blobs
        /\ \A k \in gc.orphaned_blobs : gc.task[k] \in {"ok", "err"}

\* C11 witness: a cleanup has ended in which one orphan's delete failed and
\* another orphan was deleted.
C11_Witness ==
    /\ Swept(gc)
    /\ \E k \in gc.orphaned_blobs : gc.task[k] = "err"
    /\ \E k \in gc.orphaned_blobs : gc.task[k] = "ok"

\* The cleanup run has made its delete call for the closed manifest, and the
\* call failed.
ManifestDeleteAttempted(r) ==
    /\ r.pc \in {"pool", "done"}
    /\ ~r.dry_run
    /\ r.next > Len(r.open_prs) + 1

ManifestDeleteFailed(r) == ManifestDeleteAttempted(r) /\ ~r.deleted_manifest

\* The closed PR of the run is not in its open list.
ClosedNotOpen(r) == \A i \in DOMAIN r.open_prs : r.open_prs[i] # r.closed_pr

\* C12 (as claimed): whatever makes the delete of the closed manifest fail,
\* the run goes on to the orphan deletes and ends with its summary.
C12_ManifestDeleteFailureAbsorbed ==
    ManifestDeleteFailed(gc) =>
        /\ ~gc.raised
        /\ DOMAIN gc.task = gc.orphaned_blobs
        /\ gc.pc = "done" => gc.exit = 0

\* What a cleanup run leaves alone, run undisturbed: the manifests other than
\* the closed one, and the blobs the loaded manifests reference.
CleanupFrame(r) ==
    /\ DOMAIN manifests \subseteq DOMAIN r.before.manifests
    /\ \A n \in DOMAIN r.before.manifests \ {PrName(r.closed_pr)} :
         /\ n \in DOMAIN manifests
         /\ manifests[n] = r.before.manifests[n]
    /\ LoadedReferences(r) \cap r.before.blobs \subseteq blobs
    /\ LoadedReferences(r) \cap DeleteIssued(r) = {}

\* C13 (as claimed): after its manifest delete, an undisturbed non-dry-run
\* cleanup for closed PR c not in its open list has removed manifests/pr-c
\* and left the other manifests and the referenced blobs untouched.
C13_ClosedManifestDeleted ==
    (gc.alone /\ ManifestDeleteAttempted(gc) /\ ClosedNotOpen(gc)) =>
        /\ PrName(gc.closed_pr) \notin DOMAIN manifests
        /\ CleanupFrame(gc)

\* C13 (amended): such a run has removed manifests/pr-c when its delete call
\* returned, has left every manifest as it was when the call failed, and in
\* both cases has left the other manifests and the blobs referenced by a
\* loaded active manifest untouched.
C13_ClosedManifestDeletedUnlessCallFails ==
    (gc.alone /\ ManifestDeleteAttempted(gc) /\ ClosedNotOpen(gc)) =>
        /\ gc.deleted_manifest => PrName(gc.closed_pr) \notin DOMAIN manifests
        /\ ~gc.deleted_manifest => manifests = gc.before.manifests
        /\ CleanupFrame(gc)

\* C13 witness: an undisturbed run for a closed PR whose manifest was stored
\* has ended, having deleted that manifest and an orphan, the manifest of an
\* open PR and its blobs being stored.
C13_Witness ==
    /\ gc.pc = "done"
    /\ gc.alone
    /\ ManifestDeleteAttempted(gc)
    /\ ClosedNotOpen(gc)
    /\ gc.deleted_manifest
    /\ PrName(gc.closed_pr) \in DOMAIN gc.before.manifests
    /\ Deleted(gc) # {}
    /\ \E i \in DOMAIN gc.open_prs :
         /\ PrName(gc.open_prs[i]) \in DOMAIN manifests
         /\ BlobsIn(manifests[PrName(gc.open_prs[i])]) # {}
         /\ BlobsIn(manifests[PrName(gc.open_prs[i])]) \subseteq blobs

\* C14: once a run has put its manifest, the object stored under its name
\* maps exactly the paths of the scanned tree, each to the entry of the
\* file's bytes: nothing of a prior manifest of that name is left.
C14_PublishReplacesManifest ==
    \A u \in Uploaders :
        (up[u].pc = "done" /\ up[u].published) =>
            LET stored == manifests[up[u].manifest_name]
                tree == up[u].dist
            IN  /\ DOMAIN stored = { RelativePath(p) : p \in DOMAIN tree }
                /\ \A p \in DOMAIN tree :
                     stored[RelativePath(p)] =
                         [ hash |-> hash_file(tree[p]),
                           blob |-> BlobKey(hash_file(tree[p]), get_extension(p)),
                           size |-> Len(tree[p]) ]

\* C14 witness: a successful run has replaced a manifest that had a path the
\* new tree has not.
C14_Witness ==
    \E u \in Uploaders :
        /\ up[u].pc = "done"
        /\ up[u].published
        /\ up[u].exit = 0
        /\ up[u].manifest_name \in DOMAIN up[u].before.manifests
        /\ DOMAIN up[u].before.manifests[up[u].manifest_name]
               \ DOMAIN manifests[up[u].manifest_name] # {}

\* C15 (as claimed): a run whose scan found no file ends with exit 1, with or
\* without --dry-run.
C15_EmptyTreeFails ==
    \A u \in Uploaders :
        (up[u].pc = "done" /\ DOMAIN up[u].dist = {}) => up[u].exit = 1

C17_CleanupSucceedsAfterLoad ==
    (gc.pc = "done" /\ gc.next > Len(gc.open_prs) + 1) =>
        /\ gc.exit = 0
        /\ ~gc.raised

\* C18: the result of a cleanup run counts the listed keys no loaded manifest
\* references, the orphans whose delete returned (at most the orphans; run
\* undisturbed, the blobs gone from the bucket), and tells whether the delete
\* call for the closed manifest returned, the manifest stored or not.
C18_CleanupStatsAreExact ==
    (gc.pc = "done" /\ ~gc.raised) =>
        LET stats == CleanupStats(gc)
        IN  /\ stats.orphaned_blobs = Cardinality(gc.all_blobs \ LoadedReferences(gc))
            /\ stats.deleted_blobs = Cardinality(Deleted(gc))
            /\ 0 <= stats.deleted_blobs
            /\ stats.deleted_blobs <= stats.orphaned_blobs
            /\ stats.deleted_manifest <=> gc.manifest_call = "returned"
            /\ gc.alone =>
                 /\ stats.deleted_blobs = Cardinality(gc.before.blobs \ blobs)
                 /\ stats.deleted_manifest =>
                      PrName(gc.closed_pr) \notin DOMAIN manifests
                 /\ ~stats.deleted_manifest => manifests = gc.before.manifests

\* C18 witness: an undisturbed run has ended with one orphan deleted, one
\* orphan's delete failed, and the delete of an absent closed manifest
\* returned.
C18_Witness ==
    /\ Swept(gc)
    /\ gc.alone
    /\ \E k \in gc.orphaned_blobs : gc.task[k] = "err"
    /\ \E k \in gc.orphaned_blobs : gc.task[k] = "ok"
    /\ CleanupStats(gc).deleted_manifest
    /\ PrName(gc.closed_pr) \notin DOMAIN gc.before.manifests

\* The loop over the active manifests of the run has ended.
ReferencesCollected(r) ==
    /\ r.pc \in {"load", "delete_manifest", "pool", "done"}
    /\ r.next > Len(r.open_prs) + 1

\* C19: the references a cleanup run collects are the union of the blob keys
\* of the manifests it found; a name with no object, main included, adds
\* nothing and does not stop the loop.  Run undisturbed, the loop ends with
\* the blob keys of all the manifests stored under the active names.
C19_ReferencesAreUnionOfLoaded ==
    /\ gc.referenced_blobs = LoadedReferences(gc)
    /\ (gc.alone /\ ReferencesCollected(gc)) =>
         gc.referenced_blobs = ReferencedBy(gc.before.manifests, gc.open_prs)

\* C19 witness: an undisturbed run has ended its loop with the references of
\* an open PR's manifest, the main manifest being absent.
C19_Witness ==
    /\ gc.alone
    /\ ReferencesCollected(gc)
    /\ MainName \notin DOMAIN gc.before.manifests
    /\ gc.referenced_blobs # {}
    /\ \E i \in DOMAIN gc.open_prs :
         PrName(gc.open_prs[i]) \in DOMAIN gc.before.manifests

\* C20: after an undisturbed non-dry-run cleanup with no failed delete and
\* the closed PR not in the open list, the bucket holds exactly the blobs it
\* held that the manifests under the active names reference; the blobs that
\* only the closed manifest referenced are gone.
C20_SweepLeavesExactlyReferenced ==
    (Swept(gc) /\ gc.alone /\ ClosedNotOpen(gc) /\ gc.deleted_manifest
       /\ \A k \in DOMAIN gc.task : gc.task[k] # "err") =>
        LET active == ReferencedBy(gc.before.manifests, gc.open_prs)
            closed == IF PrName(gc.closed_pr) \in DOMAIN gc.before.manifests
                      THEN BlobsIn(gc.before.manifests[PrName(gc.closed_pr)])
                      ELSE {}
        IN  /\ blobs = gc.before.blobs \cap active
            /\ blobs = gc.all_blobs \cap LoadedReferences(gc)
            /\ (closed \ active) \cap blobs = {}

\* C20 witness: such a run has ended, having removed a blob that only the
\* closed manifest referenced and kept a blob that manifest shares with an
\* active one.
C20_Witness ==
    /\ Swept(gc)
    /\ gc.alone
    /\ ClosedNotOpen(gc)
    /\ gc.deleted_manifest
    /\ \A k \in DOMAIN gc.task : gc.task[k] = "ok"
    /\ PrName(gc.closed_pr) \in DOMAIN gc.before.manifests
    /\ LET closed == BlobsIn(gc.before.manifests[PrName(gc.closed_pr)])
       IN  /\ (closed \cap gc.before.blobs) \ blobs # {}
           /\ closed \cap blobs # {}

\* The keys whose existence check missed, resp. hit, during a run's scan, and
\* the keys the run has issued a PUT for.
MissedKeys(r) == { r.blobs_to_upload[i].blob_key : i \in DOMAIN r.blobs_to_upload }

HitKeys(r) == { r.existing_blobs[i] : i \in DOMAIN r.existing_blobs }

PutIssued(r) ==
    { r.blobs_to_upload[i].blob_key :
        i \in { j \in DOMAIN r.task : r.task[j] # "queued" } }

\* The run has submitted its upload tasks (or had none to submit).
UploadSubmitted(r) ==
    \/ r.pc \in {"pool", "drain", "publish"}
    \/ r.pc = "done" /\ ~r.dry_run /\ r.todo = {} /\ DOMAIN r.dist # {}

\* C21 (as claimed): a run that has gone through its upload step has issued
\* a PUT for exactly the keys whose existence check missed, and no run ever
\* issues one for a key whose check hit.
C21_PutIffMissed ==
    \A u \in Uploaders :
        /\ (up[u].pc = "done" /\ UploadSubmitted(up[u])) =>
             PutIssued(up[u]) = MissedKeys(up[u])
        /\ PutIssued(up[u]) \cap HitKeys(up[u]) = {}

\* C21 (amended): a run issues PUTs only for keys whose check missed; a run
\* that is not a dry run and completes its scan submits one PUT per missed
\* check and has issued them all when it ends; and in a run that no other run
\* overlaps the checks hit exactly on the keys the bucket held, so that no
\* key is both reused and uploaded.
C21_PutIffMissedInCompleteRun ==
    \A u \in Uploaders :
        LET r == up[u]
        IN  /\ PutIssued(r) \subseteq MissedKeys(r)
            /\ UploadSubmitted(r) =>
                 /\ Len(r.task) = Len(r.blobs_to_upload)
                 /\ Len(r.blobs_to_upload) + Len(r.existing_blobs)
                        = Cardinality(DOMAIN r.dist)
            /\ (r.pc = "done" /\ UploadSubmitted(r)) => PutIssued(r) = MissedKeys(r)
            /\ r.alone =>
                 /\ HitKeys(r) \subseteq r.before.blobs
                 /\ MissedKeys(r) \cap r.before.blobs = {}
                 /\ PutIssued(r) \cap HitKeys(r) = {}

\* C21 witness: a run that nothing overlapped has put its manifest after
\* reusing one blob and uploading another.
C21_Witness ==
    \E u \in Uploaders :
        /\ up[u].published
        /\ up[u].alone
        /\ HitKeys(up[u]) # {}
        /\ PutIssued(up[u]) # {}

\* C22: a blob leaves the bucket only in a step of the sweep of a non-dry-run
\* cleanup and only if it is in that run's orphan set; a manifest leaves it
\* only in such a run's manifest delete; a step of an upload run, dry or
\* not, failing or not, removes no blob and no manifest.
C22_OnlySweepDeletes ==
    [][ /\ blobs \ blobs' # {} =>
             /\ gc.pc = "pool"
             /\ ~gc.dry_run
             /\ blobs \ blobs' \subseteq gc.orphaned_blobs
             /\ up' = up
        /\ DOMAIN manifests \ DOMAIN manifests' # {} =>
             /\ gc.pc = "delete_manifest"
             /\ ~gc.dry_run
             /\ up' = up
        /\ up' # up =>
             /\ blobs \subseteq blobs'
             /\ DOMAIN manifests \subseteq DOMAIN manifests'
      ]_vars

\* C22 witness: a cleanup run with no open PR has ended after removing the
\* closed manifest and an orphan from the bucket.
C22_Witness ==
    /\ gc.pc = "done"
    /\ gc.open_prs = <<>>
    /\ Deleted(gc) # {}
    /\ PrName(gc.closed_pr) \in DOMAIN gc.before.manifests \ DOMAIN manifests

\* C23 (as claimed): once the failure of an upload task has been observed,
\* no task of the run that has not started is started.
C23_NoStartAfterObservedFailure ==
    [][ \A u \in Uploaders :
          up[u].pc = "drain" =>
              \A i \in DOMAIN up[u].task :
                  up[u].task[i] = "queued" => up'[u].task[i] = "queued"
      ]_vars

\* C24: in the upload batch and in the deletion batch the calls running at
\* any moment are at most max_workers.
C24_WorkersBounded ==
    /\ \A u \in Uploaders :
         Cardinality(Running(up[u].task)) <= up[u].max_workers
    /\ Cardinality(Deleting(gc.task)) <= gc.max_workers

\* C24 witness: with one worker, a delete is running while another waits,
\* in a bucket filled by an upload of two blobs.
C24_Witness ==
    /\ gc.max_workers = 1
    /\ Cardinality(Deleting(gc.task)) = 1
    /\ \E k \in DOMAIN gc.task : gc.task[k] = "queued"

\* C25 (as claimed): no two upload tasks of a run operate on the same key
\* (the delete tasks of a run, one per element of a set, never do).
C25_TasksOnDisjointKeys ==
    \A u \in Uploaders :
        \A i, j \in DOMAIN up[u].blobs_to_upload :
            up[u].blobs_to_upload[i].blob_key = up[u].blobs_to_upload[j].blob_key
                => i = j

\* The path -> entry mapping of a tree: each path with the hash of its bytes,
\* the key made of that hash and the path's extension, and its size.
ExpectedManifest(tree) ==
    [rp \in { RelativePath(p) : p \in DOMAIN tree } |->
        LET p == CHOOSE q \in DOMAIN tree : RelativePath(q) = rp
        IN  [ hash |-> hash_file(tree[p]),
              blob |-> BlobKey(hash_file(tree[p]), get_extension(p)),
              size |-> Len(tree[p]) ]]

\* The existence checks a run has made, and whether it has started to upload.
ChecksMade(r) == Len(r.existing_blobs) + Len(r.blobs_to_upload)

UploadsBegun(r) ==
    \/ r.pc \in {"pool", "drain", "publish"}
    \/ r.task # <<>>
    \/ r.published

\* C26 (as claimed): every file is hashed and has its manifest entry before
\* the run makes a network call, existence check included.
C26_ScanBeforeAnyNetworkCall ==
    \A u \in Uploaders :
        (ChecksMade(up[u]) > 0 \/ UploadsBegun(up[u])) =>
            /\ up[u].todo = {}
            /\ up[u].manifest = ExpectedManifest(up[u].dist)

\* C26 (amended): every file is hashed and has its manifest entry before the
\* run issues a blob PUT or the manifest put, and the manifest is the tree's
\* mapping from then on; the existence checks are made during the scan, one
\* for each file as soon as its entry is built.
C26_ScanBeforeAnyUpload ==
    \A u \in Uploaders :
        /\ UploadsBegun(up[u]) =>
             /\ up[u].todo = {}
             /\ up[u].manifest = ExpectedManifest(up[u].dist)
        /\ ChecksMade(up[u]) = Cardinality(Scanned(up[u]))
        /\ DOMAIN up[u].manifest = { RelativePath(p) : p \in Scanned(up[u]) }

\* C26 witness: of a tree of two files, one found in the bucket, the other
\* has been uploaded and the manifest is not yet put.
C26_Witness ==
    \E u \in Uploaders :
        /\ up[u].pc = "pool"
        /\ Cardinality(DOMAIN up[u].dist) = 2
        /\ up[u].existing_blobs # <<>>
        /\ \E i \in DOMAIN up[u].task : up[u].task[i] = "ok"

\* C27: while a cleanup run lists and loads it has no orphan set and has
\* issued no delete (run undisturbed, the bucket is as it was found); the
\* orphan set exists, computed from the complete listing and the references
\* of every active manifest, when the first delete is issued; and it is the
\* same set in every later step of the run.
C27_MarkBeforeSweep ==
    /\ [](/\ gc.pc \in {"list", "load"} =>
              /\ gc.orphaned_blobs = {}
              /\ gc.task = EmptyMap
              /\ gc.manifest_call = "none"
              /\ gc.alone => Bucket = gc.before
          /\ (gc.manifest_call # "none" \/ DeleteIssued(gc) # {}) =>
              /\ gc.next > Len(gc.open_prs) + 1
              /\ gc.orphaned_blobs = gc.all_blobs \ LoadedReferences(gc)
              /\ DeleteIssued(gc) \subseteq gc.orphaned_blobs)
    /\ [][ gc.pc \in {"delete_manifest", "pool"} =>
             /\ gc'.orphaned_blobs = gc.orphaned_blobs
             /\ gc'.all_blobs = gc.all_blobs
             /\ gc'.referenced_blobs = gc.referenced_blobs
          ]_vars

\* C27 witness: a run with an open PR is deleting an orphan, a blob having
\* been added to the bucket since its listing.
C27_Witness ==
    /\ gc.pc = "pool"
    /\ gc.open_prs # <<>>
    /\ Deleting(gc.task) # {}
    /\ blobs \ gc.all_blobs # {}

\* C28: while two upload runs work under the same manifest name, the object
\* under that name is absent, or the snapshot one of them found at its start,
\* or the whole mapping of one of the two trees; and every step that stores
\* or changes a manifest stores the whole mapping of the tree of a run working
\* under that name, never a mixture.
C28_ManifestIsOneRunsMapping ==
    /\ [](\A u, v \in Uploaders :
            ( /\ u # v
              /\ up[u].pc # "idle"
              /\ up[v].pc # "idle"
              /\ up[u].manifest_name = up[v].manifest_name
              /\ up[u].manifest_name \in DOMAIN manifests ) =>
                LET n == up[u].manifest_name
                IN  \/ manifests[n] \in { ExpectedManifest(up[u].dist),
                                          ExpectedManifest(up[v].dist) }
                    \/ \E w \in {u, v} :
                          /\ n \in DOMAIN up[w].before.manifests
                          /\ manifests[n] = up[w].before.manifests[n])
    /\ [][ \A n \in DOMAIN manifests' :
             (n \notin DOMAIN manifests \/ manifests'[n] # manifests[n]) =>
                 \E u \in Uploaders :
                     /\ up[u].manifest_name = n
                     /\ ~up[u].published
                     /\ up'[u].published
                     /\ manifests'[n] = ExpectedManifest(up[u].dist)
          ]_vars

\* C28 witness: a run has just replaced the prior snapshot under a name with
\* the mapping of its own tree while another run, of a different tree, is
\* still working under the same name.
C28_Witness ==
    \E u, v \in Uploaders :
        /\ u # v
        /\ up[u].pc = "done"
        /\ up[u].published
        /\ up[v].pc \in {"pool", "publish"}
        /\ up[v].manifest_name = up[u].manifest_name
        /\ up[v].dist # up[u].dist
        /\ DOMAIN up[v].dist # {}
        /\ up[u].manifest_name \in DOMAIN up[u].before.manifests
        /\ up[u].manifest_name \in DOMAIN manifests
        /\ manifests[up[u].manifest_name] = ExpectedManifest(up[u].dist)
        /\ manifests[up[u].manifest_name] # up[u].before.manifests[up[u].manifest_name]

\* C29 (as claimed): a run that ends with the zero-files failure has not put
\* its manifest, and, no other run interfering, leaves the bucket as it was.
C29_EmptyTreePublishesNothing ==
    \A u \in Uploaders :
        (up[u].pc = "done" /\ DOMAIN up[u].dist = {} /\ up[u].exit = 1) =>
            /\ ~up[u].published
            /\ up[u].alone => Bucket = up[u].before

\* C30 (as claimed): when a run puts its manifest, every blob the manifest
\* references is in the bucket, whatever a concurrent cleanup run does.
C30_PublishedBlobsExist ==
    [][ \A u \in Uploaders :
          (~up[u].published /\ up'[u].published) =>
              BlobsIn(manifests'[up[u].manifest_name]) \subseteq blobs'
      ]_vars

\* The name the loop over the active manifests is at.
NameAt(r) == IF r.next = 1 THEN MainName ELSE PrName(r.open_prs[r.next - 1])

\* C31: a step of the loop over the active manifests either ends the run
\* with the exception, the store untouched, or moves to the next name, and
\* then a manifest stored under the name has been read and its references
\* collected (a failure is not taken for a missing manifest); a run that
\* ended with an exception before the closed manifest's delete has computed
\* no orphan set, has issued no delete, and, undisturbed, leaves the bucket
\* as it was.
C31_LoadFailureAborts ==
    /\ []((gc.pc = "done" /\ gc.raised /\ gc.manifest_call = "none") =>
            /\ ~gc.deleted_manifest
            /\ gc.task = EmptyMap
            /\ gc.orphaned_blobs = {}
            /\ gc.alone => Bucket = gc.before)
    /\ [][ (gc.pc = "load" /\ gc.next <= Len(gc.open_prs) + 1) =>
             \/ gc'.pc = "load" /\ gc'.next = gc.next
             \/ /\ gc'.pc = "done"
                /\ gc'.raised
                /\ gc'.exit = 1
                /\ gc'.manifest_call = "none"
                /\ gc'.next = gc.next
                /\ gc'.referenced_blobs = gc.referenced_blobs
                /\ blobs' = blobs
                /\ manifests' = manifests
             \/ /\ gc'.pc = "load"
                /\ gc'.next = gc.next + 1
                /\ ~gc'.raised
                /\ NameAt(gc) \in DOMAIN manifests =>
                      /\ manifests[NameAt(gc)] \in gc'.loaded
                      /\ BlobsIn(manifests[NameAt(gc)]) \subseteq gc'.referenced_blobs
          ]_vars

\* C31 witness: the load of an open PR's stored manifest failed after the
\* main manifest was read; the closed manifest and a blob only it references,
\* which the sweep would have deleted, are still there.
C31_Witness ==
    /\ gc.pc = "done"
    /\ gc.raised
    /\ gc.manifest_call = "none"
    /\ gc.next = 2
    /\ Len(gc.open_prs) = 1
    /\ NameAt(gc) \in DOMAIN manifests
    /\ PrName(gc.closed_pr) \in DOMAIN manifests
    /\ gc.closed_pr # gc.open_prs[1]
    /\ (gc.all_blobs \cap blobs) \ BlobsIn(manifests[NameAt(gc)]) # {}
    /\ gc.referenced_blobs = {}

\* C32: a step of the scan loop either records the file it checked and goes
\* on, or ends the run with the exception, nothing submitted, nothing put and
\* the store untouched; a run that ended inside its scan has issued no blob
\* PUT and no manifest put and, undisturbed, leaves the bucket as it was.
C32_ScanFailureAborts ==
    /\ [](\A u \in Uploaders :
            (up[u].pc = "done" /\ up[u].raised /\ up[u].todo # {}) =>
                /\ up[u].exit = 1
                /\ up[u].task = <<>>
                /\ ~up[u].published
                /\ up[u].alone => Bucket = up[u].before)
    /\ [][ \A u \in Uploaders :
             (up[u].pc = "scan" /\ up[u].todo # {}) =>
                 \/ up'[u].pc = "scan" /\ up'[u].todo = up[u].todo
                 \/ /\ up'[u].pc = "scan"
                    /\ ~up'[u].raised
                    /\ \E path \in up[u].todo :
                          /\ up'[u].todo = up[u].todo \ {path}
                          /\ RelativePath(path) \in DOMAIN up'[u].manifest
                          /\ ChecksMade(up'[u]) = ChecksMade(up[u]) + 1
                 \/ /\ up'[u].pc = "done"
                    /\ up'[u].raised
                    /\ up'[u].exit = 1
                    /\ up'[u].todo = up[u].todo
                    /\ up'[u].task = <<>>
                    /\ ~up'[u].published
                    /\ blobs' = blobs
                    /\ manifests' = manifests
          ]_vars

\* C32 witness: a run ended inside its scan after a check that missed, with
\* a file still unchecked: a blob was to be uploaded and none was.
C32_Witness ==
    \E u \in Uploaders :
        /\ up[u].pc = "done"
        /\ up[u].raised
        /\ up[u].todo # {}
        /\ up[u].blobs_to_upload # <<>>
        /\ up[u].alone
        /\ MissedKeys(up[u]) \cap blobs = {}

\* C33: an upload run with --dry-run has ended with 0 right after its scan:
\* it has submitted no blob upload and put no manifest, and, no other run
\* interfering, blobs and manifests are as they were when it started.
C33_DryRunUploadMutatesNothing ==
    \A u \in Uploaders :
        up[u].dry_run =>
            /\ up[u].pc = "done"
            /\ up[u].exit = 0
            /\ up[u].task = <<>>
            /\ ~up[u].published
            /\ up[u].todo = {}
            /\ up[u].alone => (blobs = up[u].before.blobs
                                /\ manifests = up[u].before.manifests)

\* C33 witness: a dry run of a tree with a blob the bucket lacks, under a
\* name whose stored manifest differs from the tree's.
C33_Witness ==
    \E u \in Uploaders :
        /\ up[u].pc = "done"
        /\ up[u].dry_run
        /\ up[u].alone
        /\ up[u].blobs_to_upload # <<>>
        /\ up[u].existing_blobs # <<>>
        /\ up[u].manifest_name \in DOMAIN manifests
        /\ manifests[up[u].manifest_name] # ExpectedManifest(up[u].dist)

\* C34 (as claimed): no step removes a manifest object whose name is in the
\* active set of the cleanup run that takes it, main and pr-<id> for every
\* id of the open list, whatever the closed PR is.
C34_ActiveManifestNeverDeleted ==
    [][ \A n \in DOMAIN manifests \ DOMAIN manifests' :
          n \notin ActiveNames(gc.open_prs)
      ]_vars

\* The outcomes of the storage calls of a cleanup run that has ended.
ObservedCalls(r) ==
    [ mark |-> IF r.raised /\ r.manifest_call = "none" THEN "raise" ELSE "ok",
      manifest |-> IF r.manifest_call # "raised" THEN "returned"
                   ELSE IF r.raised THEN "other_error" ELSE "client_error",
      failed |-> { k \in DOMAIN r.task : r.task[k] = "err" } ]

\* C35: when a run of the cleanup subcommand that no upload overlapped has
\* ended, the delete calls it issued, the bucket it leaves and the counts it
\* reports are those of the function cleanup_r2 applied to the bucket the
\* run started on, with the same closed PR, open list and dry-run flag and
\* the same outcomes of the storage calls.
C35_SubcommandMatchesFunction ==
    (gc.pc = "done" /\ gc.alone) =>
        LET fn == cleanup_r2(gc.before, gc.closed_pr, gc.open_prs, gc.dry_run,
                             ObservedCalls(gc))
        IN  /\ Bucket = fn.store
            /\ DOMAIN gc.task = fn.issued
            /\ (gc.manifest_call # "none") = fn.manifest_issued
            /\ gc.raised = ~fn.returned
            /\ ~gc.raised =>
                  /\ gc.exit = 0
                  /\ Cardinality(gc.orphaned_blobs) = fn.stats.orphaned_blobs
                  /\ Cardinality(Deleted(gc)) = fn.stats.deleted_blobs
                  /\ gc.deleted_manifest = fn.stats.deleted_manifest

\* C35 witness: a run that read references from the main manifest has
\* deleted the closed manifest and an orphan.
C35_Witness ==
    /\ gc.pc = "done"
    /\ gc.alone
    /\ ~gc.raised
    /\ ~gc.dry_run
    /\ gc.deleted_manifest
    /\ PrName(gc.closed_pr) \in DOMAIN gc.before.manifests
    /\ Deleted(gc) # {}
    /\ gc.referenced_blobs \cap gc.all_blobs # {}
    /\ MainName \in DOMAIN gc.before.manifests

====
